---------------------------- MODULE Spec2Model ----------------------------
(***************************************************************************)
(* disk_status_exporter: the /metrics scan of main.py.                     *)
(*                                                                         *)
(* One scan enumerates the block devices, starts one asyncio task per     *)
(* device behind a semaphore of MAX_CONCURRENCY slots, classifies each    *)
(* device, probes every rotational non-virtual one PROBE_ATTEMPTS times   *)
(* with smartctl (in a worker thread), folds the samples with             *)
(* highest_activity_state and renders the counters and the records.       *)
(*                                                                         *)
(* The cooldown table (_device_cooldowns, set_device_cooldown,            *)
(* is_device_in_cooldown, COOLDOWN_SECONDS) is called by the test-suite    *)
(* but is not defined in main.py; it is modelled from the specification.  *)
(***************************************************************************)
EXTENDS Integers, Sequences, FiniteSets, TLC

\* ------------------------------------------------------------------ bounds
NumDevices == 3
MaxTime == 2
MaxSamples == 3
MaxLines == 2
MaxReport == 4
\* Calls of metrics() that can be under way at the same time, and the
\* devices a call lists where overlapping calls are explored exhaustively.
MaxCalls == 2
MaxOverlapDevices == 2

\* ----------------------------------------------------------- configuration
\* main.py:16 and main.py:18: max(int(getenv(...)), 1); the values of one
\* deployment.
PROBE_ATTEMPTS == 2
MAX_CONCURRENCY == 2
\* main.py:17: max(int(getenv("PROBE_INTERVAL_MS", "1000")), 0); the model
\* runs with no delay and with the default delay.
IntervalChoices == {0, 1000}

\* Not in main.py: used by tests/test_smartctl_and_state.py:111.
COOLDOWN_SECONDS == 2

\* Device /dev/sd<k>: sorted() of the paths is the order of the indices.
Dev == 1..NumDevices

\* The calls of metrics(); a call that has returned may be made again.
Calls == 1..MaxCalls

\* -------------------------------------------------------------- power states
PowerStates ==
  {"error", "unknown", "sleep", "standby", "idle_a", "idle_b", "idle_c",
   "idle", "active_or_idle", "active"}

\* A ranking by the numeric codes of STATE_MAP instead of the activity rank.
RankAsStateMap(s) ==
  CASE s = "unknown" -> -1
    [] s = "error" -> -2
    [] s = "standby" -> 0
    [] s = "idle" -> 1
    [] s = "active_or_idle" -> 2
    [] s = "idle_a" -> 3
    [] s = "idle_b" -> 4
    [] s = "idle_c" -> 5
    [] s = "active" -> 6
    [] s = "sleep" -> 7
    [] OTHER -> 0

\* main.py:60-71, read as ACTIVITY_RANK.get(s, 0)
ACTIVITY_RANK(s) ==
  CASE s = "error" -> -1
    [] s = "unknown" -> 0
    [] s = "sleep" -> 1
    [] s = "standby" -> 2
    [] s = "idle_a" -> 3
    [] s = "idle_b" -> 4
    [] s = "idle_c" -> 5
    [] s = "idle" -> 6
    [] s = "active_or_idle" -> 7
    [] s = "active" -> 8
    [] OTHER -> 0

\* main.py:46-57, read as STATE_MAP.get(state, STATE_MAP["unknown"])
STATE_MAP(s) ==
  CASE s = "unknown" -> -1
    [] s = "error" -> -2
    [] s = "standby" -> 0
    [] s = "idle" -> 1
    [] s = "active_or_idle" -> 2
    [] s = "idle_a" -> 3
    [] s = "idle_b" -> 4
    [] s = "idle_c" -> 5
    [] s = "active" -> 6
    [] s = "sleep" -> 7
    [] OTHER -> -1

\* A merge that keeps the later sample.
later_state(a, b) == b

\* main.py:76-78
highest_activity_state(a, b) ==
  IF ACTIVITY_RANK(a) >= ACTIVITY_RANK(b) THEN a ELSE b


\* ------------------------------------------------------- smartctl's output
\* The stdout of one smartctl run is a sequence of lines; the lines the
\* model draws from (the phrasings of the tests and of smartctl).
Lines ==
  {"Device is in STANDBY mode", "Device is in SLEEP mode",
   "Power mode is: IDLE_A", "Power mode is: IDLE_B", "Power mode is: IDLE_C",
   "drive state is: ACTIVE or IDLE", "state: ACTIVE/IDLE",
   "current mode: ACTIVE", "current mode: IDLE", "device is in standby mode",
   "model: FooBar 123", "SMART support is: Unavailable",
   "smart support is:   unavailable"}

\* `marker in line.upper()` for the markers smartctl_power_state looks for.
MarkersIn(line) ==
  CASE line = "Device is in STANDBY mode" -> {"STANDBY"}
    [] line = "device is in standby mode" -> {"STANDBY"}
    [] line = "Device is in SLEEP mode" -> {"SLEEP"}
    [] line = "Power mode is: IDLE_A" -> {"IDLE_A", "IDLE"}
    [] line = "Power mode is: IDLE_B" -> {"IDLE_B", "IDLE"}
    [] line = "Power mode is: IDLE_C" -> {"IDLE_C", "IDLE"}
    [] line = "drive state is: ACTIVE or IDLE" ->
         {"ACTIVE OR IDLE", "ACTIVE", "IDLE"}
    [] line = "state: ACTIVE/IDLE" -> {"ACTIVE", "IDLE"}
    [] line = "current mode: ACTIVE" -> {"ACTIVE"}
    [] line = "current mode: IDLE" -> {"IDLE"}
    [] OTHER -> {}

\* re.search(r"SMART support is:\s+Unavailable", line, flags=re.IGNORECASE)
SmartUnavailable(line) ==
  line \in {"SMART support is: Unavailable", "smart support is:   unavailable"}

\* `marker in uout`, uout = stdout.upper()
InOutput(marker, stdout) ==
  \E k \in 1..Len(stdout) : marker \in MarkersIn(stdout[k])

\* A decoding that looks for ACTIVE before ACTIVE OR IDLE.
DecodeOutputActiveFirst(stdout) ==
  IF \E k \in 1..Len(stdout) : SmartUnavailable(stdout[k]) THEN "unknown"
  ELSE IF InOutput("STANDBY", stdout) THEN "standby"
  ELSE IF InOutput("SLEEP", stdout) THEN "sleep"
  ELSE IF InOutput("IDLE_A", stdout) THEN "idle_a"
  ELSE IF InOutput("IDLE_B", stdout) THEN "idle_b"
  ELSE IF InOutput("IDLE_C", stdout) THEN "idle_c"
  ELSE IF InOutput("ACTIVE", stdout) THEN "active"
  ELSE IF InOutput("ACTIVE OR IDLE", stdout) THEN "active_or_idle"
  ELSE IF InOutput("IDLE", stdout) THEN "idle"
  ELSE "unknown"

\* A decoding that looks for the SMART-unavailable line after the markers.
DecodeOutputMarkersFirst(stdout) ==
  IF InOutput("STANDBY", stdout) THEN "standby"
  ELSE IF InOutput("SLEEP", stdout) THEN "sleep"
  ELSE IF InOutput("IDLE_A", stdout) THEN "idle_a"
  ELSE IF InOutput("IDLE_B", stdout) THEN "idle_b"
  ELSE IF InOutput("IDLE_C", stdout) THEN "idle_c"
  ELSE IF InOutput("ACTIVE OR IDLE", stdout) THEN "active_or_idle"
  ELSE IF InOutput("ACTIVE", stdout) THEN "active"
  ELSE IF InOutput("IDLE", stdout) THEN "idle"
  ELSE "unknown"

\* main.py:261-287: the decoding of the stdout of a run that returned.
DecodeOutput(stdout) ==
  IF \E k \in 1..Len(stdout) : SmartUnavailable(stdout[k]) THEN "unknown"
  ELSE IF InOutput("STANDBY", stdout) THEN "standby"
  ELSE IF InOutput("SLEEP", stdout) THEN "sleep"
  ELSE IF InOutput("IDLE_A", stdout) THEN "idle_a"
  ELSE IF InOutput("IDLE_B", stdout) THEN "idle_b"
  ELSE IF InOutput("IDLE_C", stdout) THEN "idle_c"
  ELSE IF InOutput("ACTIVE OR IDLE", stdout) THEN "active_or_idle"
  ELSE IF InOutput("ACTIVE", stdout) THEN "active"
  ELSE IF InOutput("IDLE", stdout) THEN "idle"
  ELSE "unknown"

\* What subprocess.run does in one call: it raises TimeoutExpired, raises
\* another exception, or returns a result with stdout and returncode.
Timeout == [kind |-> "timeout", stdout |-> <<>>, returncode |-> 0]
Failure == [kind |-> "failure", stdout |-> <<>>, returncode |-> 0]
Returned(out, rc) == [kind |-> "ok", stdout |-> out, returncode |-> rc]

\* The runs a scan's probes draw from.
ScanRuns ==
  {Timeout, Failure,
   Returned(<<"SMART support is: Unavailable">>, 0),
   Returned(<<"current mode: ACTIVE">>, 0)}

\* ---------------------------------------------------------- cooldown table
\* _device_cooldowns: device -> expiry time.  Modelled from the
\* specification (section 4.4, Cooldown Breaker).
set_device_cooldown(table, dev, t) ==
  [d \in DOMAIN table \cup {dev} |->
     IF d = dev THEN t + COOLDOWN_SECONDS ELSE table[d]]

\* A read that answers for an expired entry and leaves it in the table.
is_device_in_cooldown_no_eviction(table, dev, t) ==
  IF dev \notin DOMAIN table THEN [result |-> FALSE, table |-> table]
  ELSE [result |-> t < table[dev], table |-> table]

is_device_in_cooldown(table, dev, t) ==
  IF dev \notin DOMAIN table THEN [result |-> FALSE, table |-> table]
  ELSE IF t < table[dev] THEN [result |-> TRUE, table |-> table]
  ELSE [result |-> FALSE,
        table |-> [d \in DOMAIN table \ {dev} |-> table[d]]]

\* A live entry, without the eviction.
LiveCooldown(table, dev, t) == dev \in DOMAIN table /\ t < table[dev]

\* --------------------------------------------------------------- the prober
\* main.py:246-253: smartctl_power_state starts with subprocess.run: one
\* invocation of the external command per call, whatever the table holds.
smartctl_invocations(table, dev, t) == 1

\* A prober that arms the cooldown when the invocation fails.
smartctl_power_state_failure_arms(table, dev, t, run) ==
  IF run.kind = "timeout" THEN [state |-> "unknown", table |-> table]
  ELSE IF run.kind = "failure"
    THEN [state |-> "error", table |-> set_device_cooldown(table, dev, t)]
  ELSE [state |-> DecodeOutput(run.stdout), table |-> table]

\* main.py:241-287: the state returned and the cooldown table left by one
\* call whose subprocess.run behaved as `run`.
smartctl_power_state(table, dev, t, run) ==
  IF run.kind = "timeout" THEN [state |-> "unknown", table |-> table]
  ELSE IF run.kind = "failure" THEN [state |-> "error", table |-> table]
  ELSE [state |-> DecodeOutput(run.stdout), table |-> table]

\* A fold that starts from the lowest state.
InitialLowest == "error"

\* main.py:297
InitialHighest == "unknown"

\* A semaphore created with one slot too many.
SemaphoreOneTooMany == MAX_CONCURRENCY + 1

\* main.py:383: asyncio.Semaphore(MAX_CONCURRENCY)
SemaphoreValue == MAX_CONCURRENCY

\* A loop that sleeps after every sample, the last one too.
AfterSampleAlwaysSleeps(i, attempts, interval) ==
  IF i + 1 <= attempts /\ interval > 0 THEN "sleep"
  ELSE IF i + 1 < attempts THEN "probe"
  ELSE "return"

\* main.py:301-302: what async_highest_power_state does after sample i
\* (0-based): sleep, take the next sample at once, or return.
AfterSample(i, attempts, interval) ==
  IF i + 1 < attempts /\ interval > 0 THEN "sleep"
  ELSE IF i + 1 < attempts THEN "probe"
  ELSE "return"

\* A classification that gives a device of unknown type no counter.
ClassifyDropsUnknown(rtype, virtual) ==
  IF rtype = "unknown" THEN "none"
  ELSE IF rtype # "hdd" THEN "skipped_non_rotational"
  ELSE IF virtual THEN "skipped_virtual"
  ELSE "scanned_hdds"

\* A classification that skips only what is known to be non-rotational.
ClassifyUnknownAsHdd(rtype, virtual) ==
  IF rtype = "ssd" THEN "skipped_non_rotational"
  ELSE IF virtual THEN "skipped_virtual"
  ELSE "scanned_hdds"

\* main.py:315-320: the branch gather_device_metrics takes.
Classify(rtype, virtual) ==
  IF rtype # "hdd" THEN "skipped_non_rotational"
  ELSE IF virtual THEN "skipped_virtual"
  ELSE "scanned_hdds"

RotationalTypes == {"hdd", "ssd", "unknown"}

\* sorted(list_block_devices()) for the set S of enumerated devices.
RECURSIVE Sorted(_)
Sorted(S) ==
  IF S = {} THEN <<>>
  ELSE LET m == CHOOSE x \in S : \A y \in S : x <= y
       IN <<m>> \o Sorted(S \ {m})


\* ------------------------------------------------------------------- state
VARIABLES
  now,          \* time.time(), in seconds
  cooldowns,    \* _device_cooldowns
  interval_ms,  \* PROBE_INTERVAL_MS
  phase,        \* per call of metrics(): "idle", "scanning" (inside), "done"
  devices,      \* metrics: devices, the sorted enumeration, per call
  pc,           \* where each device's task run_with_sem(dev) stands, per call
  idx,          \* async_highest_power_state: i
  highest,      \* async_highest_power_state: highest
  pending,      \* the sample the worker thread has returned and the coroutine
                \* has not taken yet ("none": there is none)
  rtype,        \* what get_rotational_type read for the device
  virt,         \* what is_virtual_device answered: "unread", "yes", "no"
  results,      \* what each task returned to asyncio.gather
  sem,          \* the free slots of the call's semaphore
  waiters,      \* the queue of tasks waiting at the call's semaphore
  invocations,  \* subprocess.run calls made by the device's current probe
  callLive,     \* the device had a live cooldown entry when the probe began
  calls,        \* probes started for the device in this scan
  sleeps,       \* inter-sample sleeps started for the device in this scan
  inflight,     \* probes of the device that began and have not returned
  lastTimeout,  \* the latest observed probe timeout: its device and time
  overtaken,    \* a device's record was returned in this scan while a device
                \* listed before it was still being probed
  ev,           \* the prober or cooldown call made by the last step, where
                \* the specification observes the calls
  counters,     \* metrics: the four counters rendered, per call
  lines,        \* metrics: the device records rendered, in order, per call
  f_samples,    \* the fold check: the samples the prober will return
  f_i,          \* the fold check: samples folded so far
  f_highest,    \* the fold check: highest
  m_a, m_b,     \* the merge check: the arguments
  m_res,        \* the merge check: the result, "none" before the call
  d_run,        \* the decoding check: what subprocess.run does in the call
  d_res,        \* the decoding check: the state returned, "none" before
  z_run,        \* get_zpool_device_map: what `zpool status` does in the call
  z_pc,         \* get_zpool_device_map: "start", "parsing", "returned",
                \* "excepted" (returned from the except branch)
  z_i,          \* get_zpool_device_map: lines of the report read so far
  current_pool, \* get_zpool_device_map: current_pool
  in_config,    \* get_zpool_device_map: in_config
  pool_map,     \* get_zpool_device_map: pool_map
  z_result,     \* get_zpool_device_map: the mapping returned
  p_isdir,      \* get_persistent_id: os.path.isdir(by_id_dir)
  p_listing,    \* get_persistent_id: the names glob.glob yields, in order
  p_res         \* get_persistent_id: the path returned ("none" before)

scanVars ==
  <<now, cooldowns, interval_ms, phase, devices, pc, idx, highest, pending,
    rtype, virt, results, sem, waiters, invocations, callLive, calls, sleeps,
    inflight, lastTimeout, overtaken, ev, counters, lines>>
foldVars == <<f_samples, f_i, f_highest>>
mergeVars == <<m_a, m_b, m_res>>
decodeVars == <<d_run, d_res>>
zpoolVars == <<z_run, z_pc, z_i, current_pool, in_config, pool_map, z_result>>
\* The variables of the checks of single functions, idle during a scan.
pidVars == <<p_isdir, p_listing, p_res>>
otherVars == <<foldVars, mergeVars, decodeVars, zpoolVars, pidVars>>
vars == <<scanVars, otherVars>>

NoEvent ==
  [op |-> "none", dev |-> 0, kind |-> "", state |-> "", live |-> FALSE,
   invocations |-> 0, t |-> 0]

NoTimeout == [dev |-> 0, t |-> 0]

NoResult == [kind |-> "none", state |-> ""]

ZeroCounters ==
  [enumerated |-> 0, scanned_hdds |-> 0, skipped_non_rotational |-> 0,
   skipped_virtual |-> 0]

\* The locals of one call of metrics(), one value per device.
EachDev(v) == [d \in Dev |-> v]

Listed(c, d) == \E k \in 1..Len(devices[c]) : devices[c][k] = d
Position(c, d) == CHOOSE k \in 1..Len(devices[c]) : devices[c][k] = d

\* The tasks of call c holding a slot of its semaphore.
Holders(c) ==
  {d \in Dev : pc[c][d] \in {"woken", "ready", "probing", "sleeping"}}

ScanInit ==
  /\ now = 0
  /\ cooldowns = <<>>
  /\ interval_ms \in IntervalChoices
  /\ phase = [c \in Calls |-> "idle"]
  /\ devices = [c \in Calls |-> <<>>]
  /\ pc = [c \in Calls |-> EachDev("absent")]
  /\ idx = [c \in Calls |-> EachDev(0)]
  /\ highest = [c \in Calls |-> EachDev(InitialHighest)]
  /\ pending = [c \in Calls |-> EachDev("none")]
  /\ rtype = [c \in Calls |-> EachDev("unread")]
  /\ virt = [c \in Calls |-> EachDev("unread")]
  /\ results = [c \in Calls |-> EachDev(NoResult)]
  /\ sem = [c \in Calls |-> SemaphoreValue]
  /\ waiters = [c \in Calls |-> <<>>]
  /\ invocations = [c \in Calls |-> EachDev(0)]
  /\ callLive = [c \in Calls |-> EachDev(FALSE)]
  /\ calls = [c \in Calls |-> EachDev(0)]
  /\ sleeps = [c \in Calls |-> EachDev(0)]
  /\ inflight = [c \in Calls |-> EachDev(0)]
  /\ lastTimeout = NoTimeout
  /\ overtaken = [c \in Calls |-> FALSE]
  /\ ev = NoEvent
  /\ counters = [c \in Calls |-> ZeroCounters]
  /\ lines = [c \in Calls |-> <<>>]

FoldIdle == f_samples = <<>> /\ f_i = 0 /\ f_highest = InitialHighest
MergeIdle == m_a = "unknown" /\ m_b = "unknown" /\ m_res = "none"
DecodeIdle == d_run = Returned(<<>>, 0) /\ d_res = "none"

\* current_pool: Optional[str] = None
NoPool == [set |-> FALSE, name |-> ""]

ZpoolIdle ==
  /\ z_run = [kind |-> "absent", stdout |-> <<>>, returncode |-> 0]
  /\ z_pc = "start"
  /\ z_i = 0
  /\ current_pool = NoPool
  /\ in_config = FALSE
  /\ pool_map = <<>>
  /\ z_result = <<>>

PidIdle == p_isdir = FALSE /\ p_listing = <<>> /\ p_res = "none"

Init ==
  ScanInit /\ FoldIdle /\ MergeIdle /\ DecodeIdle /\ ZpoolIdle /\ PidIdle

\* ----------------------------------------------------------------- actions
\* main.py:393-400: the loop over gather's results, from position k on.
RECURSIVE CountKind(_, _, _, _)
CountKind(devs, res, k, key) ==
  IF k > Len(devs) THEN 0
  ELSE (IF res[devs[k]].kind = key THEN 1 ELSE 0)
       + CountKind(devs, res, k + 1, key)

\* A rendering that leaves out the devices whose probes all failed.
RECURSIVE RecordsKnownOnly(_, _, _)
RecordsKnownOnly(devs, res, k) ==
  IF k > Len(devs) THEN <<>>
  ELSE (IF res[devs[k]].kind = "scanned_hdds"
           /\ res[devs[k]].state \notin {"unknown", "error"}
          THEN <<[device |-> devs[k], state |-> res[devs[k]].state,
                  value |-> STATE_MAP(res[devs[k]].state)]>>
          ELSE <<>>)
       \o RecordsKnownOnly(devs, res, k + 1)

\* A rendering that appends the records from the end of the list backwards.
RECURSIVE RecordsDescending(_, _, _)
RecordsDescending(devs, res, k) ==
  IF k > Len(devs) THEN <<>>
  ELSE RecordsDescending(devs, res, k + 1)
       \o (IF res[devs[k]].kind = "scanned_hdds"
             THEN <<[device |-> devs[k], state |-> res[devs[k]].state,
                     value |-> STATE_MAP(res[devs[k]].state)]>>
             ELSE <<>>)

\* main.py:393-400: gather's results come in the order of `devices`; the
\* records of the scanned devices are appended in that order.
RECURSIVE Records(_, _, _)
Records(devs, res, k) ==
  IF k > Len(devs) THEN <<>>
  ELSE (IF res[devs[k]].kind = "scanned_hdds"
          THEN <<[device |-> devs[k], state |-> res[devs[k]].state,
                  value |-> STATE_MAP(res[devs[k]].state)]>>
          ELSE <<>>)
       \o Records(devs, res, k + 1)

\* main.py:393-424: the counters and the records metrics() renders from the
\* results of gather, and its return, which drops its locals.
Render(c, devs, res) ==
  /\ phase' = [phase EXCEPT ![c] = "done"]
  /\ counters' =
       [counters EXCEPT ![c] =
          [enumerated |-> Len(devs),
           scanned_hdds |-> CountKind(devs, res, 1, "scanned_hdds"),
           skipped_non_rotational |->
             CountKind(devs, res, 1, "skipped_non_rotational"),
           skipped_virtual |-> CountKind(devs, res, 1, "skipped_virtual")]]
  /\ lines' = [lines EXCEPT ![c] = Records(devs, res, 1)]
  /\ devices' = [devices EXCEPT ![c] = <<>>]
  /\ pc' = [pc EXCEPT ![c] = EachDev("absent")]

\* main.py:347-390: metrics() up to `await asyncio.gather`; Enumerations are
\* the sets of devices list_block_devices() may yield.  Call c begins
\* whatever the other calls are doing: each call has its own locals and its
\* own semaphore.  With no device gather has nothing to wait for and the call
\* runs to its end in the same step.
StartScanOf(c, Enumerations) ==
  /\ phase[c] \in {"idle", "done"}
  /\ \E S \in Enumerations :
       IF S = {}
         THEN Render(c, <<>>, EachDev(NoResult))
         ELSE /\ phase' = [phase EXCEPT ![c] = "scanning"]
              /\ devices' = [devices EXCEPT ![c] = Sorted(S)]
              /\ pc' = [pc EXCEPT ![c] =
                          [d \in Dev |->
                             IF d \in S THEN "created" ELSE "absent"]]
              /\ counters' = [counters EXCEPT ![c] = ZeroCounters]
              /\ lines' = [lines EXCEPT ![c] = <<>>]
  /\ idx' = [idx EXCEPT ![c] = EachDev(0)]
  /\ highest' = [highest EXCEPT ![c] = EachDev(InitialHighest)]
  /\ pending' = [pending EXCEPT ![c] = EachDev("none")]
  /\ rtype' = [rtype EXCEPT ![c] = EachDev("unread")]
  /\ virt' = [virt EXCEPT ![c] = EachDev("unread")]
  /\ results' = [results EXCEPT ![c] = EachDev(NoResult)]
  /\ sem' = [sem EXCEPT ![c] = SemaphoreValue]
  /\ waiters' = [waiters EXCEPT ![c] = <<>>]
  /\ invocations' = [invocations EXCEPT ![c] = EachDev(0)]
  /\ callLive' = [callLive EXCEPT ![c] = EachDev(FALSE)]
  /\ calls' = [calls EXCEPT ![c] = EachDev(0)]
  /\ sleeps' = [sleeps EXCEPT ![c] = EachDev(0)]
  /\ inflight' = [inflight EXCEPT ![c] = EachDev(0)]
  /\ ev' = NoEvent
  /\ overtaken' = [overtaken EXCEPT ![c] = FALSE]
  /\ UNCHANGED <<now, cooldowns, interval_ms, lastTimeout>>

\* A task that gives its slot back twice.
ReleaseTwice(c, d, free, res) ==
  /\ results' = [results EXCEPT ![c][d] = res]
  /\ IF waiters[c] # <<>>
       THEN /\ pc' = [pc EXCEPT ![c][d] = "done",
                                ![c][Head(waiters[c])] = "woken"]
            /\ waiters' = [waiters EXCEPT ![c] = Tail(waiters[c])]
            /\ sem' = [sem EXCEPT ![c] = free + 1]
       ELSE /\ pc' = [pc EXCEPT ![c][d] = "done"]
            /\ waiters' = waiters
            /\ sem' = [sem EXCEPT ![c] = free + 2]

\* A task that returns without giving its slot back.
ReleaseKeepsSlot(c, d, free, res) ==
  /\ results' = [results EXCEPT ![c][d] = res]
  /\ pc' = [pc EXCEPT ![c][d] = "done"]
  /\ waiters' = waiters
  /\ sem' = [sem EXCEPT ![c] = free]

\* main.py:386, leaving `async with sem`: the slot goes to the first waiter,
\* or back to the semaphore.  `free` is the semaphore's value before.
Release(c, d, free, res) ==
  /\ results' = [results EXCEPT ![c][d] = res]
  /\ IF waiters[c] # <<>>
       THEN /\ pc' = [pc EXCEPT ![c][d] = "done",
                                ![c][Head(waiters[c])] = "woken"]
            /\ waiters' = [waiters EXCEPT ![c] = Tail(waiters[c])]
            /\ sem' = [sem EXCEPT ![c] = free]
       ELSE /\ pc' = [pc EXCEPT ![c][d] = "done"]
            /\ waiters' = waiters
            /\ sem' = [sem EXCEPT ![c] = free + 1]

\* main.py:387, 306-329, 297-299: gather_device_metrics up to its first
\* await, run by a task that holds a slot; a device to be probed has its
\* first sample submitted to the worker threads.  `free` is the semaphore's
\* value with the slot taken.
Enter(c, d, free) ==
  \E rt \in RotationalTypes, v \in BOOLEAN :
    LET k == Classify(rt, v) IN
    /\ rtype' = [rtype EXCEPT ![c][d] = rt]
    /\ virt' = [virt EXCEPT ![c][d] =
                  IF rt # "hdd" THEN "unread" ELSE IF v THEN "yes" ELSE "no"]
    /\ IF k = "scanned_hdds"
         THEN /\ pc' = [pc EXCEPT ![c][d] = "ready"]
              /\ sem' = [sem EXCEPT ![c] = free]
              /\ UNCHANGED <<results, waiters>>
         ELSE Release(c, d, free, [kind |-> k, state |-> ""])
    /\ idx' = [idx EXCEPT ![c][d] = 0]
    /\ highest' = [highest EXCEPT ![c][d] = InitialHighest]
    /\ ev' = NoEvent
    /\ UNCHANGED <<now, cooldowns, interval_ms, phase, devices, pending,
                   invocations, callLive, calls, sleeps, inflight,
                   lastTimeout, overtaken, counters, lines>>

\* main.py:385-386: the task's first step.  The event loop starts the tasks
\* of a call in the order of their creation.
TaskStart(c, d) ==
  /\ phase[c] = "scanning"
  /\ pc[c][d] = "created"
  /\ \A k \in 1..Len(devices[c]) :
       k < Position(c, d) => pc[c][devices[c][k]] # "created"
  /\ IF sem[c] > 0 /\ waiters[c] = <<>>
       THEN Enter(c, d, sem[c] - 1)
       ELSE /\ pc' = [pc EXCEPT ![c][d] = "waiting"]
            /\ waiters' = [waiters EXCEPT ![c] = Append(waiters[c], d)]
            /\ ev' = NoEvent
            /\ UNCHANGED <<now, cooldowns, interval_ms, phase, devices, idx,
                           highest, pending, rtype, virt, results, sem,
                           invocations, callLive, calls, sleeps, inflight,
                           lastTimeout, overtaken, counters, lines>>

\* main.py:386-387: a task that was handed a slot runs on.
TaskResume(c, d) ==
  /\ phase[c] = "scanning"
  /\ pc[c][d] = "woken"
  /\ Enter(c, d, sem[c])

AllStarted(c) == \A d \in Dev : pc[c][d] # "created"

\* main.py:299, 246-253: the worker thread enters smartctl_power_state with
\* the sample the coroutine submitted.  `observed`: the call is recorded in ev.
ProbeStart(c, d, observed) ==
  /\ phase[c] = "scanning"
  /\ pc[c][d] = "ready"
  /\ pc' = [pc EXCEPT ![c][d] = "probing"]
  /\ invocations' =
       [invocations EXCEPT ![c][d] = smartctl_invocations(cooldowns, d, now)]
  /\ callLive' = [callLive EXCEPT ![c][d] = LiveCooldown(cooldowns, d, now)]
  /\ calls' = [calls EXCEPT ![c][d] = @ + 1]
  /\ inflight' = [inflight EXCEPT ![c][d] = @ + 1]
  /\ ev' = IF observed
             THEN [NoEvent EXCEPT !.op = "call", !.dev = d, !.t = now,
                     !.live = LiveCooldown(cooldowns, d, now),
                     !.invocations = smartctl_invocations(cooldowns, d, now)]
             ELSE NoEvent
  /\ UNCHANGED <<now, cooldowns, interval_ms, phase, devices, idx, highest,
                 pending, rtype, virt, results, sem, waiters, sleeps,
                 lastTimeout, overtaken, counters, lines>>

\* main.py:254-287: smartctl_power_state returns in its worker thread; the
\* sample waits for the event loop to resume the coroutine.
ProbeReturn(c, d, observed) ==
  /\ phase[c] = "scanning"
  /\ pc[c][d] = "probing"
  /\ pending[c][d] = "none"
  /\ \E run \in ScanRuns :
       LET r == smartctl_power_state(cooldowns, d, now, run)
       IN /\ cooldowns' = r.table
          /\ pending' = [pending EXCEPT ![c][d] = r.state]
          /\ lastTimeout' =
               IF observed /\ run.kind = "timeout" THEN [dev |-> d, t |-> now]
               ELSE lastTimeout
          /\ ev' = IF observed
                     THEN [op |-> "return", dev |-> d, kind |-> run.kind,
                           state |-> r.state, live |-> callLive[c][d],
                           invocations |-> invocations[c][d], t |-> now]
                     ELSE NoEvent
  /\ inflight' = [inflight EXCEPT ![c][d] = @ - 1]
  /\ UNCHANGED <<now, interval_ms, phase, devices, pc, idx, highest, rtype,
                 virt, results, sem, waiters, invocations, callLive, calls,
                 sleeps, overtaken, counters, lines>>

\* main.py:299-303, 329-338, 386: the event loop resumes the coroutine with
\* the sample: it is folded, and the coroutine sleeps, submits the next
\* sample or returns the record and gives the slot back.  The resumption
\* comes after the callbacks that were ready before it, that is, after every
\* task of the call has taken its first step.
SampleTaken(c, d) ==
  /\ phase[c] = "scanning"
  /\ AllStarted(c)
  /\ pc[c][d] = "probing"
  /\ pending[c][d] # "none"
  /\ LET h == highest_activity_state(highest[c][d], pending[c][d])
         nxt == AfterSample(idx[c][d], PROBE_ATTEMPTS, interval_ms)
     IN /\ highest' = [highest EXCEPT ![c][d] = h]
        /\ CASE nxt = "sleep" ->
                  /\ pc' = [pc EXCEPT ![c][d] = "sleeping"]
                  /\ sleeps' = [sleeps EXCEPT ![c][d] = @ + 1]
                  /\ UNCHANGED <<idx, results, sem, waiters>>
             [] nxt = "probe" ->
                  /\ pc' = [pc EXCEPT ![c][d] = "ready"]
                  /\ idx' = [idx EXCEPT ![c][d] = @ + 1]
                  /\ UNCHANGED <<results, sem, waiters, sleeps>>
             [] OTHER ->
                  /\ Release(c, d, sem[c],
                             [kind |-> "scanned_hdds", state |-> h])
                  /\ UNCHANGED <<idx, sleeps>>
        /\ overtaken' =
             IF nxt \in {"sleep", "probe"} THEN overtaken
             ELSE [overtaken EXCEPT ![c] =
                     @ \/ \E e \in Dev :
                            /\ Listed(c, e)
                            /\ Position(c, e) < Position(c, d)
                            /\ pc[c][e] \in {"ready", "probing", "sleeping"}]
  /\ pending' = [pending EXCEPT ![c][d] = "none"]
  /\ ev' = NoEvent
  /\ UNCHANGED <<now, cooldowns, interval_ms, phase, devices, rtype, virt,
                 invocations, callLive, calls, inflight, lastTimeout,
                 counters, lines>>

\* main.py:302, 298-299: the sleep ends, the loop goes on to the next i and
\* submits the next sample.
SleepEnd(c, d) ==
  /\ phase[c] = "scanning"
  /\ pc[c][d] = "sleeping"
  /\ pc' = [pc EXCEPT ![c][d] = "ready"]
  /\ idx' = [idx EXCEPT ![c][d] = @ + 1]
  /\ ev' = NoEvent
  /\ UNCHANGED <<now, cooldowns, interval_ms, phase, devices, highest,
                 pending, rtype, virt, results, sem, waiters, invocations,
                 callLive, calls, sleeps, inflight, lastTimeout, overtaken,
                 counters, lines>>

\* main.py:390-424: gather returns when every task is done; the counters and
\* the records are rendered and metrics() returns, dropping its locals.
Collect(c) ==
  /\ phase[c] = "scanning"
  /\ \A d \in Dev : pc[c][d] \in {"absent", "done"}
  /\ Render(c, devices[c], results[c])
  /\ idx' = [idx EXCEPT ![c] = EachDev(0)]
  /\ highest' = [highest EXCEPT ![c] = EachDev(InitialHighest)]
  /\ rtype' = [rtype EXCEPT ![c] = EachDev("unread")]
  /\ virt' = [virt EXCEPT ![c] = EachDev("unread")]
  /\ results' = [results EXCEPT ![c] = EachDev(NoResult)]
  /\ invocations' = [invocations EXCEPT ![c] = EachDev(0)]
  /\ callLive' = [callLive EXCEPT ![c] = EachDev(FALSE)]
  /\ calls' = [calls EXCEPT ![c] = EachDev(0)]
  /\ sleeps' = [sleeps EXCEPT ![c] = EachDev(0)]
  /\ inflight' = [inflight EXCEPT ![c] = EachDev(0)]
  /\ ev' = NoEvent
  /\ UNCHANGED <<now, cooldowns, interval_ms, pending, sem, waiters,
                 lastTimeout, overtaken>>

\* Time passes.
Tick ==
  /\ now < MaxTime
  /\ now' = now + 1
  /\ ev' = NoEvent
  /\ UNCHANGED <<cooldowns, interval_ms, phase, devices, pc, idx, highest,
                 pending, rtype, virt, results, sem, waiters, invocations,
                 callLive, calls, sleeps, inflight, lastTimeout, overtaken,
                 counters, lines>>

\* The cooldown table's two operations, called as the tests call them, at
\* any moment: between scans, and while a probe runs in its worker thread.
SetDeviceCooldown(d) ==
  /\ cooldowns' = set_device_cooldown(cooldowns, d, now)
  /\ ev' = [NoEvent EXCEPT !.op = "set", !.dev = d, !.t = now]
  /\ UNCHANGED <<now, interval_ms, phase, devices, pc, idx, highest, pending,
                 rtype, virt, results, sem, waiters, invocations, callLive,
                 calls, sleeps, inflight, lastTimeout, overtaken, counters,
                 lines>>

IsDeviceInCooldown(d) ==
  /\ LET r == is_device_in_cooldown(cooldowns, d, now)
     IN /\ cooldowns' = r.table
        /\ ev' = [NoEvent EXCEPT !.op = "check", !.dev = d, !.t = now,
                    !.live = r.result,
                    !.kind = IF d \in DOMAIN cooldowns THEN "entry"
                             ELSE "no entry"]
  /\ UNCHANGED <<now, interval_ms, phase, devices, pc, idx, highest, pending,
                 rtype, virt, results, sem, waiters, invocations, callLive,
                 calls, sleeps, inflight, lastTimeout, overtaken, counters,
                 lines>>

\* The devices differ in their place in the sorted list only: an enumeration
\* of k devices is taken to be the first k.
Enumerations == {1..k : k \in 0..NumDevices}

\* A call of metrics() begins, whatever the other calls are doing.
StartScan(c) == StartScanOf(c, Enumerations)

\* The program of main.py: calls of metrics(), one after the other or
\* overlapping, each on any enumeration.
Next ==
  \/ \E c \in Calls : StartScan(c) /\ UNCHANGED otherVars
  \/ \E c \in Calls, d \in Dev : TaskStart(c, d) /\ UNCHANGED otherVars
  \/ \E c \in Calls, d \in Dev : TaskResume(c, d) /\ UNCHANGED otherVars
  \/ \E c \in Calls, d \in Dev :
       ProbeStart(c, d, FALSE) /\ UNCHANGED otherVars
  \/ \E c \in Calls, d \in Dev :
       ProbeReturn(c, d, FALSE) /\ UNCHANGED otherVars
  \/ \E c \in Calls, d \in Dev : SampleTaken(c, d) /\ UNCHANGED otherVars
  \/ \E c \in Calls, d \in Dev : SleepEnd(c, d) /\ UNCHANGED otherVars
  \/ \E c \in Calls : Collect(c) /\ UNCHANGED otherVars

Spec == Init /\ [][Next]_vars

\* Overlapping calls of metrics(), every call listing at most
\* MaxOverlapDevices devices, whether or not another call is under way.  The
\* calls are interchangeable: a call takes the first entry of Calls that is
\* not inside a scan.  With no more devices than slots no task waits, and
\* TaskResume has no step to take.
OverlapEnumerations ==
  {S \in Enumerations : Cardinality(S) <= MaxOverlapDevices}

StartOverlapScan(c) ==
  /\ \A o \in Calls : o < c => phase[o] = "scanning"
  /\ StartScanOf(c, OverlapEnumerations)

OverlapNext ==
  \/ \E c \in Calls : StartOverlapScan(c) /\ UNCHANGED otherVars
  \/ \E c \in Calls, d \in Dev : TaskStart(c, d) /\ UNCHANGED otherVars
  \/ \E c \in Calls, d \in Dev :
       ProbeStart(c, d, FALSE) /\ UNCHANGED otherVars
  \/ \E c \in Calls, d \in Dev :
       ProbeReturn(c, d, FALSE) /\ UNCHANGED otherVars
  \/ \E c \in Calls, d \in Dev : SampleTaken(c, d) /\ UNCHANGED otherVars
  \/ \E c \in Calls, d \in Dev : SleepEnd(c, d) /\ UNCHANGED otherVars
  \/ \E c \in Calls : Collect(c) /\ UNCHANGED otherVars

OverlapSpec == Init /\ [][OverlapNext]_vars

\* The prober over time: one call of metrics() at a time, scanning at most
\* one device, of the first two devices, with the clock and the cooldown
\* table's operations, every call of the prober observed.
ProbeDev == {d \in Dev : d <= 2}

ProbeCall == CHOOSE c \in Calls : \A o \in Calls : c <= o

StartProbeScan ==
  StartScanOf(ProbeCall, {S \in SUBSET ProbeDev : Cardinality(S) <= 1})

ProbeNext ==
  \/ StartProbeScan /\ UNCHANGED otherVars
  \/ \E d \in ProbeDev : TaskStart(ProbeCall, d) /\ UNCHANGED otherVars
  \/ \E d \in ProbeDev :
       ProbeStart(ProbeCall, d, TRUE) /\ UNCHANGED otherVars
  \/ \E d \in ProbeDev :
       ProbeReturn(ProbeCall, d, TRUE) /\ UNCHANGED otherVars
  \/ \E d \in ProbeDev : SampleTaken(ProbeCall, d) /\ UNCHANGED otherVars
  \/ \E d \in ProbeDev : SleepEnd(ProbeCall, d) /\ UNCHANGED otherVars
  \/ Collect(ProbeCall) /\ UNCHANGED otherVars
  \/ Tick /\ UNCHANGED otherVars
  \/ \E d \in ProbeDev :
       SetDeviceCooldown(d) /\ UNCHANGED otherVars
  \/ \E d \in ProbeDev :
       IsDeviceInCooldown(d) /\ UNCHANGED otherVars

ProbeSpec == Init /\ [][ProbeNext]_vars

\* The prober in its worker threads: scans of the first two devices, whose
\* probes run side by side (main.py:299, asyncio.to_thread), with the clock
\* and the cooldown table's operations at any moment, and no delay between
\* the samples.
StartConcurrentScan == StartScanOf(ProbeCall, {ProbeDev})

ConcurrentInit == Init /\ interval_ms = 0

ConcurrentNext ==
  \/ StartConcurrentScan /\ UNCHANGED otherVars
  \/ \E d \in ProbeDev : TaskStart(ProbeCall, d) /\ UNCHANGED otherVars
  \/ \E d \in ProbeDev :
       ProbeStart(ProbeCall, d, TRUE) /\ UNCHANGED otherVars
  \/ \E d \in ProbeDev :
       ProbeReturn(ProbeCall, d, TRUE) /\ UNCHANGED otherVars
  \/ \E d \in ProbeDev : SampleTaken(ProbeCall, d) /\ UNCHANGED otherVars
  \/ Collect(ProbeCall) /\ UNCHANGED otherVars
  \/ Tick /\ UNCHANGED otherVars
  \/ \E d \in ProbeDev :
       SetDeviceCooldown(d) /\ UNCHANGED otherVars
  \/ \E d \in ProbeDev :
       IsDeviceInCooldown(d) /\ UNCHANGED otherVars

ConcurrentSpec == ConcurrentInit /\ [][ConcurrentNext]_vars

\* The calls of metrics() made one at a time: a call begins when the call
\* before it has returned.
StartSerialScan == StartScanOf(ProbeCall, Enumerations)

SerialNext ==
  \/ StartSerialScan /\ UNCHANGED otherVars
  \/ \E d \in Dev : TaskStart(ProbeCall, d) /\ UNCHANGED otherVars
  \/ \E d \in Dev : TaskResume(ProbeCall, d) /\ UNCHANGED otherVars
  \/ \E d \in Dev : ProbeStart(ProbeCall, d, FALSE) /\ UNCHANGED otherVars
  \/ \E d \in Dev : ProbeReturn(ProbeCall, d, FALSE) /\ UNCHANGED otherVars
  \/ \E d \in Dev : SampleTaken(ProbeCall, d) /\ UNCHANGED otherVars
  \/ \E d \in Dev : SleepEnd(ProbeCall, d) /\ UNCHANGED otherVars
  \/ Collect(ProbeCall) /\ UNCHANGED otherVars

SerialSpec == Init /\ [][SerialNext]_vars

\* The scan under the scheduling the code relies on: the event loop runs
\* every task that can run, every smartctl run returns or times out
\* (timeout=10, main.py:252) and every sleep ends.
FairSpec ==
  /\ SerialSpec
  /\ \A d \in Dev :
       /\ WF_vars(TaskStart(ProbeCall, d) /\ UNCHANGED otherVars)
       /\ WF_vars(TaskResume(ProbeCall, d) /\ UNCHANGED otherVars)
       /\ WF_vars(ProbeStart(ProbeCall, d, FALSE) /\ UNCHANGED otherVars)
       /\ WF_vars(ProbeReturn(ProbeCall, d, FALSE) /\ UNCHANGED otherVars)
       /\ WF_vars(SampleTaken(ProbeCall, d) /\ UNCHANGED otherVars)
       /\ WF_vars(SleepEnd(ProbeCall, d) /\ UNCHANGED otherVars)
  /\ WF_vars(Collect(ProbeCall) /\ UNCHANGED otherVars)

\* ------------------------------------------------------- the fold, alone
\* async_highest_power_state with the prober replaced by a given sequence of
\* samples, as tests/test_smartctl_and_state.py:65-78 runs it.
RECURSIVE SeqsUpTo(_, _)
SeqsUpTo(S, n) ==
  IF n = 0 THEN {<<>>}
  ELSE LET shorter == SeqsUpTo(S, n - 1)
       IN shorter \cup
          {Append(q, x) : q \in {r \in shorter : Len(r) = n - 1}, x \in S}

FoldInit ==
  /\ ScanInit /\ interval_ms = 0
  /\ MergeIdle /\ DecodeIdle /\ ZpoolIdle /\ PidIdle
  /\ f_samples \in SeqsUpTo(PowerStates, MaxSamples) \ {<<>>}
  /\ f_i = 0
  /\ f_highest = InitialHighest

\* main.py:298-300: one turn of the loop.
FoldStep ==
  /\ f_i < Len(f_samples)
  /\ f_highest' = highest_activity_state(f_highest, f_samples[f_i + 1])
  /\ f_i' = f_i + 1
  /\ UNCHANGED <<f_samples, scanVars, mergeVars, decodeVars, zpoolVars,
                 pidVars>>

\* main.py:297-303: the state async_highest_power_state returns when the
\* prober yields `samples`, starting from `highest`.
RECURSIVE FoldSamples(_, _)
FoldSamples(highest_, samples) ==
  IF samples = <<>> THEN highest_
  ELSE FoldSamples(highest_activity_state(highest_, Head(samples)),
                   Tail(samples))

FoldNext == FoldStep

FoldSpec == FoldInit /\ [][FoldNext]_vars

\* ------------------------------------------------------ the merge, alone
MergeInit ==
  /\ ScanInit /\ interval_ms = 0
  /\ FoldIdle /\ DecodeIdle /\ ZpoolIdle /\ PidIdle
  /\ m_a \in PowerStates
  /\ m_b \in PowerStates
  /\ m_res = "none"

MergeCall ==
  /\ m_res = "none"
  /\ m_res' = highest_activity_state(m_a, m_b)
  /\ UNCHANGED <<m_a, m_b, scanVars, foldVars, decodeVars, zpoolVars,
                 pidVars>>

MergeNext == MergeCall

MergeSpec == MergeInit /\ [][MergeNext]_vars

\* ---------------------------------------------------- the decoding, alone
\* smartctl_power_state with subprocess.run replaced by a given behaviour,
\* as tests/test_smartctl_and_state.py:25-62 runs it: a stdout of up to
\* MaxLines lines and a return code, a timeout or a failure.
ReturnCodes == {0, 2}

DecodeRuns ==
  {Timeout, Failure}
    \cup {Returned(out, rc) : out \in SeqsUpTo(Lines, MaxLines),
                             rc \in ReturnCodes}

\* The device the decoding check probes.
DecodeDev == 1

DecodeInit ==
  /\ ScanInit /\ interval_ms = 0
  /\ FoldIdle /\ MergeIdle /\ ZpoolIdle /\ PidIdle
  /\ d_run \in DecodeRuns
  /\ d_res = "none"

\* main.py:241-287: one call of smartctl_power_state.
DecodeCall ==
  /\ d_res = "none"
  /\ LET r == smartctl_power_state(cooldowns, DecodeDev, now, d_run)
     IN /\ d_res' = r.state
        /\ cooldowns' = r.table
  /\ UNCHANGED <<d_run, now, interval_ms, phase, devices, pc, idx, highest,
                 pending, rtype, virt, results, sem, waiters, invocations, callLive,
                 calls, sleeps, inflight, lastTimeout, overtaken, ev,
                 counters, lines, foldVars, mergeVars, zpoolVars, pidVars>>

DecodeNext == DecodeCall

DecodeSpec == DecodeInit /\ [][DecodeNext]_vars

\* ------------------------------------------------- the pool map, alone
\* The lines of `zpool status -L -P` the model draws from (the report of
\* tests/test_zpool_map.py:16-27, a second pool and a pool line without a
\* name).
ReportLines ==
  {"  pool: tank", "  pool: backup", "  pool:", "config:", "  NAME  STATE",
   "  mirror-0  ONLINE", "  tank  ONLINE",
   "  /dev/disk/by-id/ata-DISK123-part1  ONLINE", "  /dev/sdd1  ONLINE"}

\* main.py:202: line.strip().startswith("pool:")
StartsWithPool(line) ==
  line \in {"  pool: tank", "  pool: backup", "  pool:"}

\* main.py:203: line.split(":", 1)[1].strip()
AfterColon(line) ==
  CASE line = "  pool: tank" -> "tank"
    [] line = "  pool: backup" -> "backup"
    [] OTHER -> ""

\* main.py:206: line.strip().startswith("config:")
StartsWithConfig(line) == line = "config:"

\* main.py:214: the match of
\* ^(NAME|mirror-|special|logs|spare|cache|raidz|stripe)
IsLabel(line) == line \in {"  NAME  STATE", "  mirror-0  ONLINE"}

\* main.py:219-223: group 1 of the match of ^(/dev/\S+), "" without a match
DevPathOf(line) ==
  CASE line = "  /dev/disk/by-id/ata-DISK123-part1  ONLINE" ->
         "/dev/disk/by-id/ata-DISK123-part1"
    [] line = "  /dev/sdd1  ONLINE" -> "/dev/sdd1"
    [] OTHER -> ""

\* main.py:225: devpath.startswith("/dev/disk/by-id/")
IsById(path) == path = "/dev/disk/by-id/ata-DISK123-part1"

\* main.py:227: os.path.realpath, with the links of
\* tests/test_zpool_map.py:36-40
realpath(path) ==
  IF path = "/dev/disk/by-id/ata-DISK123-part1" THEN "/dev/sdc1" ELSE path

\* main.py:228, 231: re.sub(r"p?\d+$", "", path)
StripPartition(path) ==
  CASE path = "/dev/sdc1" -> "/dev/sdc"
    [] path = "/dev/sdd1" -> "/dev/sdd"
    [] OTHER -> path

\* pool_map[base] = pool
MapSet(map, base, pool) ==
  [b \in DOMAIN map \cup {base} |-> IF b = base THEN pool ELSE map[b]]

\* A scanner that stays in the config section at a pool line.
zpool_line_stays_in_config(st, line) ==
  IF StartsWithPool(line)
    THEN [st EXCEPT !.current_pool = [set |-> TRUE, name |-> AfterColon(line)]]
  ELSE IF StartsWithConfig(line) THEN [st EXCEPT !.in_config = TRUE]
  ELSE IF ~st.in_config \/ ~st.current_pool.set \/ st.current_pool.name = ""
    THEN st
  ELSE IF IsLabel(line) THEN st
  ELSE IF DevPathOf(line) = "" THEN st
  ELSE LET devpath == DevPathOf(line)
           base == IF IsById(devpath) THEN StripPartition(realpath(devpath))
                   ELSE StripPartition(devpath)
       IN [st EXCEPT !.pool_map = MapSet(@, base, st.current_pool.name)]

\* main.py:199-232: one turn of the loop over the report's lines; st holds
\* current_pool, in_config and pool_map.
zpool_line(st, line) ==
  IF StartsWithPool(line)
    THEN [st EXCEPT !.current_pool = [set |-> TRUE, name |-> AfterColon(line)],
                    !.in_config = FALSE]
  ELSE IF StartsWithConfig(line) THEN [st EXCEPT !.in_config = TRUE]
  ELSE IF ~st.in_config \/ ~st.current_pool.set \/ st.current_pool.name = ""
    THEN st
  ELSE IF IsLabel(line) THEN st
  ELSE IF DevPathOf(line) = "" THEN st
  ELSE LET devpath == DevPathOf(line)
           base == IF IsById(devpath) THEN StripPartition(realpath(devpath))
                   ELSE StripPartition(devpath)
       IN [st EXCEPT !.pool_map = MapSet(@, base, st.current_pool.name)]

\* main.py:209-227: the turn of the loop reaches os.path.realpath.
CallsRealpath(st, line) ==
  /\ ~StartsWithPool(line) /\ ~StartsWithConfig(line)
  /\ st.in_config /\ st.current_pool.set /\ st.current_pool.name # ""
  /\ ~IsLabel(line)
  /\ IsById(DevPathOf(line))

\* main.py:234-236: except Exception: ... return {}
ExceptReturn(map) == <<>>

\* main.py:324-325: pool_map.get(re.sub(r"p?\d+$", "", dev), "none")
PoolOf(map, dev) ==
  IF StripPartition(dev) \in DOMAIN map THEN map[StripPartition(dev)]
  ELSE "none"

\* The exit codes of `zpool status` the model draws from.
ZpoolReturnCodes == {0, 1}

\* What the call of `zpool status` does: the tool is absent
\* (shutil.which), subprocess.run raises TimeoutExpired or another
\* exception, or it returns a report and an exit code.
ZpoolRuns ==
  {[kind |-> k, stdout |-> <<>>, returncode |-> 0] :
     k \in {"absent", "timeout", "failure"}}
    \cup {[kind |-> "ok", stdout |-> out, returncode |-> rc] :
            out \in SeqsUpTo(ReportLines, MaxReport),
            rc \in ZpoolReturnCodes}

ZpoolInit ==
  /\ ScanInit /\ interval_ms = 0
  /\ FoldIdle /\ MergeIdle /\ DecodeIdle /\ PidIdle
  /\ z_run \in ZpoolRuns
  /\ z_pc = "start"
  /\ z_i = 0
  /\ current_pool = NoPool
  /\ in_config = FALSE
  /\ pool_map = <<>>
  /\ z_result = <<>>

\* main.py:184-197, 234-236: without the tool the call returns {}; when
\* subprocess.run raises, the except branch returns; else the loop begins.
\* The exit code is not read.
ZpoolStart ==
  /\ z_pc = "start"
  /\ z_pc' = CASE z_run.kind = "ok" -> "parsing"
               [] z_run.kind = "absent" -> "returned"
               [] OTHER -> "excepted"
  /\ z_result' = IF z_run.kind \in {"ok", "absent"} THEN <<>>
                 ELSE ExceptReturn(pool_map)
  /\ UNCHANGED <<z_run, z_i, current_pool, in_config, pool_map, scanVars,
                 foldVars, mergeVars, decodeVars, pidVars>>

\* main.py:199-232: the loop reads the next line.
ZpoolLine ==
  /\ z_pc = "parsing"
  /\ z_i < Len(z_run.stdout)
  /\ LET st == zpool_line([current_pool |-> current_pool,
                           in_config |-> in_config, pool_map |-> pool_map],
                          z_run.stdout[z_i + 1])
     IN /\ current_pool' = st.current_pool
        /\ in_config' = st.in_config
        /\ pool_map' = st.pool_map
  /\ z_i' = z_i + 1
  /\ UNCHANGED <<z_run, z_pc, z_result, scanVars, foldVars, mergeVars,
                 decodeVars, pidVars>>

\* main.py:227, 234-236: os.path.realpath raises on the next line's path, and
\* the except branch returns.
ZpoolLineRaises ==
  /\ z_pc = "parsing"
  /\ z_i < Len(z_run.stdout)
  /\ CallsRealpath([current_pool |-> current_pool, in_config |-> in_config,
                    pool_map |-> pool_map], z_run.stdout[z_i + 1])
  /\ z_pc' = "excepted"
  /\ z_result' = ExceptReturn(pool_map)
  /\ UNCHANGED <<z_run, z_i, current_pool, in_config, pool_map, scanVars,
                 foldVars, mergeVars, decodeVars, pidVars>>

\* main.py:238: return pool_map
ZpoolReturn ==
  /\ z_pc = "parsing"
  /\ z_i = Len(z_run.stdout)
  /\ z_pc' = "returned"
  /\ z_result' = pool_map
  /\ UNCHANGED <<z_run, z_i, current_pool, in_config, pool_map, scanVars,
                 foldVars, mergeVars, decodeVars, pidVars>>

ZpoolNext == ZpoolStart \/ ZpoolLine \/ ZpoolLineRaises \/ ZpoolReturn

ZpoolSpec == ZpoolInit /\ [][ZpoolNext]_vars

\* ------------------------------------------------- get_persistent_id
\* The most names /dev/disk/by-id holds in one check.
MaxListing == 4

\* The device the resolver is asked about.
PidDev == "/dev/sdz"

\* The names /dev/disk/by-id can hold: those of
\* tests/test_list_ids_virtual.py:90-98, a longer preferred name, a shorter
\* unprefixed name, a link to another device and a link that cannot be read.
IdNames ==
  {"ata-NICE", "wwn-FAIR", "xyz-long-generic-id-123", "ata-NICE_SERIAL",
   "md-x", "ata-OTHER", "ata-LOOP"}

\* os.path.join(by_id_dir, name), the paths glob.glob yields
ByIdPath(n) ==
  CASE n = "ata-NICE" -> "/dev/disk/by-id/ata-NICE"
    [] n = "wwn-FAIR" -> "/dev/disk/by-id/wwn-FAIR"
    [] n = "xyz-long-generic-id-123" ->
         "/dev/disk/by-id/xyz-long-generic-id-123"
    [] n = "ata-NICE_SERIAL" -> "/dev/disk/by-id/ata-NICE_SERIAL"
    [] n = "md-x" -> "/dev/disk/by-id/md-x"
    [] n = "ata-OTHER" -> "/dev/disk/by-id/ata-OTHER"
    [] n = "ata-LOOP" -> "/dev/disk/by-id/ata-LOOP"

\* os.path.basename(path)
basename(path) == CHOOSE n \in IdNames : ByIdPath(n) = path

\* os.path.realpath on the device and on the links; "raises" stands for the
\* call raising.
LinkTarget(path) ==
  CASE path = "/dev/disk/by-id/ata-OTHER" -> "/dev/sdy"
    [] path = "/dev/disk/by-id/ata-LOOP" -> "raises"
    [] path = PidDev -> PidDev
    [] OTHER -> "/dev/sdz"

\* n.startswith(PREFERRED_ID_PREFIX)
StartsWithPreferred(n) ==
  n \in {"ata-NICE", "wwn-FAIR", "ata-NICE_SERIAL", "ata-OTHER", "ata-LOOP"}

\* len(n)
NameLen(n) ==
  CASE n = "ata-NICE" -> 8
    [] n = "wwn-FAIR" -> 8
    [] n = "xyz-long-generic-id-123" -> 23
    [] n = "ata-NICE_SERIAL" -> 15
    [] n = "md-x" -> 4
    [] n = "ata-OTHER" -> 9
    [] n = "ata-LOOP" -> 8
    [] OTHER -> 0

\* The place of a name in Python's order of strings (by code point).
StrOrder(n) ==
  CASE n = "ata-LOOP" -> 1
    [] n = "ata-NICE" -> 2
    [] n = "ata-NICE_SERIAL" -> 3
    [] n = "ata-OTHER" -> 4
    [] n = "md-x" -> 5
    [] n = "wwn-FAIR" -> 6
    [] n = "xyz-long-generic-id-123" -> 7
    [] OTHER -> 0

\* A key that leaves the name out.
SortKeyNoName(n) == <<IF StartsWithPreferred(n) THEN 0 ELSE 1, NameLen(n), "">>

\* main.py:139-141: key=lambda n: (0 if preferred else 1, len(n), n)
SortKey(n) == <<IF StartsWithPreferred(n) THEN 0 ELSE 1, NameLen(n), n>>

\* Python's order of the key tuples: k1 < k2
KeyLess(k1, k2) ==
  \/ k1[1] < k2[1]
  \/ k1[1] = k2[1] /\ k1[2] < k2[2]
  \/ k1[1] = k2[1] /\ k1[2] = k2[2] /\ StrOrder(k1[3]) < StrOrder(k2[3])

\* list.sort is stable: an element goes behind every element already placed
\* whose key is not greater than its own.
RECURSIVE InsertByKey(_, _)
InsertByKey(sorted, n) ==
  IF sorted = <<>> THEN <<n>>
  ELSE IF KeyLess(SortKey(n), SortKey(Head(sorted)))
         THEN <<n>> \o sorted
         ELSE <<Head(sorted)>> \o InsertByKey(Tail(sorted), n)

RECURSIVE SortByKey(_, _)
SortByKey(sorted, rest) ==
  IF rest = <<>> THEN sorted
  ELSE SortByKey(InsertByKey(sorted, Head(rest)), Tail(rest))

\* main.py:127-133: the loop over the listing; a link whose realpath raises
\* is passed over.
RECURSIVE Candidates(_, _)
Candidates(real, listing) ==
  IF listing = <<>> THEN <<>>
  ELSE (IF LinkTarget(ByIdPath(Head(listing))) = real
          THEN <<basename(ByIdPath(Head(listing)))>>
          ELSE <<>>)
       \o Candidates(real, Tail(listing))

\* main.py:117-142
get_persistent_id(dev, isdir, listing) ==
  IF ~isdir THEN dev
  ELSE LET candidates == Candidates(LinkTarget(dev), listing)
       IN IF candidates = <<>> THEN dev
          ELSE ByIdPath(SortByKey(<<>>, candidates)[1])

\* The listings of at most MaxListing names, no name twice.
Listings ==
  {q \in SeqsUpTo(IdNames, MaxListing) :
     \A i, j \in 1..Len(q) : i # j => q[i] # q[j]}

PidInit ==
  /\ ScanInit /\ interval_ms = 0
  /\ FoldIdle /\ MergeIdle /\ DecodeIdle /\ ZpoolIdle
  /\ p_isdir \in BOOLEAN
  /\ p_listing \in (IF p_isdir THEN Listings ELSE {<<>>})
  /\ p_res = "none"

\* One call of get_persistent_id(dev).
PidCall ==
  /\ p_res = "none"
  /\ p_res' = get_persistent_id(PidDev, p_isdir, p_listing)
  /\ UNCHANGED <<p_isdir, p_listing, scanVars, foldVars, mergeVars,
                 decodeVars, zpoolVars>>

PidSpec == PidInit /\ [][PidCall]_vars

\* ------------------------------------------------------------------ claims
\* The activity order as the specification states it, low to high.
ActivityOrder ==
  <<"error", "unknown", "sleep", "standby", "idle_a", "idle_b", "idle_c",
    "idle", "active_or_idle", "active">>

OrderIndex(s) == CHOOSE k \in 1..Len(ActivityOrder) : ActivityOrder[k] = s

\* C1: a probe of a device that has a live cooldown entry returns "unknown"
\* and makes no invocation of the external command.
C1_CooldownHitSkipsProbe ==
  (ev.op \in {"call", "return"} /\ ev.live) =>
    /\ ev.invocations = 0
    /\ ev.op = "return" => ev.state = "unknown"

\* C2: a probe that times out at time t returns "unknown" and leaves the
\* device in the cooldown table with an expiry greater than t.
C2_TimeoutArmsCooldown ==
  (ev.op = "return" /\ ev.kind = "timeout") =>
    /\ ev.state = "unknown"
    /\ ev.dev \in DOMAIN cooldowns
    /\ cooldowns[ev.dev] > ev.t

\* C3: a probe whose invocation fails otherwise than by a timeout returns
\* "error"; a probe that does not time out leaves the cooldown table as it
\* was, no entry made or refreshed; and a probe of a device that has no live
\* entry, as after a failure, invokes the external command.
C3_FailureLeavesCooldown ==
  [][/\ (ev'.op = "return" /\ ev'.kind = "failure") => ev'.state = "error"
     /\ (ev'.op = "return" /\ ev'.kind # "timeout") => cooldowns' = cooldowns
     /\ (ev'.op = "call" /\ ~ev'.live) => ev'.invocations = 1
    ]_vars

\* C3's case: a failed probe returned "error", the sample waits for the
\* coroutine, and the table, which holds an entry, was left alone.
C3_Witness ==
  /\ ev.op = "return" /\ ev.kind = "failure" /\ ev.state = "error"
  /\ DOMAIN cooldowns # {}
  /\ pending[ProbeCall][ev.dev] = "error"
  /\ pc[ProbeCall][ev.dev] = "probing"

\* C4: within the cooldown duration after a device's probe timed out, no
\* probe of the device invokes the external command and every probe of it
\* returns "unknown".
C4_NoProbeInCooldownWindow ==
  (/\ ev.op \in {"call", "return"}
   /\ ev.dev = lastTimeout.dev
   /\ ev.t < lastTimeout.t + COOLDOWN_SECONDS) =>
    /\ ev.op = "call" => ev.invocations = 0
    /\ ev.op = "return" => ev.state = "unknown"

\* C5: the aggregated state of a sequence of samples is the sample of the
\* highest activity rank in the sequence.
C5_FoldIsHighestSample ==
  (f_i = Len(f_samples) /\ f_i > 0) =>
    /\ \E k \in 1..Len(f_samples) : f_highest = f_samples[k]
    /\ \A k \in 1..Len(f_samples) :
         OrderIndex(f_highest) >= OrderIndex(f_samples[k])

\* C6: merge returns the argument that stands higher in the activity order,
\* the first argument when neither does, and x for (x, x).
C6_MergeRespectsOrder ==
  m_res # "none" =>
    /\ OrderIndex(m_b) > OrderIndex(m_a) => m_res = m_b
    /\ OrderIndex(m_a) > OrderIndex(m_b) => m_res = m_a
    /\ OrderIndex(m_a) = OrderIndex(m_b) => m_res = m_a
    /\ m_a = m_b => m_res = m_a

\* C6's case: a pair that the numeric codes of STATE_MAP order the other way.
C6_Witness == m_a = "idle" /\ m_b = "idle_c" /\ m_res = "idle"

\* C7: the counters a scan reports satisfy scanned_hdds +
\* skipped_non_rotational + skipped_virtual = enumerated, and every task
\* that is done returned exactly one of the three counters.
C7_CountersAddUp ==
  \A c \in Calls :
    /\ phase[c] = "done" =>
         counters[c].scanned_hdds + counters[c].skipped_non_rotational
           + counters[c].skipped_virtual = counters[c].enumerated
    /\ \A d \in Dev :
         pc[c][d] = "done" =>
           results[c][d].kind \in
             {"scanned_hdds", "skipped_non_rotational", "skipped_virtual"}

\* C7's case: a scan of three devices, one of each kind.
C7_Witness ==
  \E c \in Calls :
    /\ phase[c] = "done"
    /\ counters[c] = [enumerated |-> 3, scanned_hdds |-> 1,
                      skipped_non_rotational |-> 1, skipped_virtual |-> 1]

\* C8: at most MAX_CONCURRENCY devices of a scan are being processed at any
\* moment of it, and every device that waits for a slot is admitted.
C8_BoundedConcurrency ==
  /\ [](\A c \in Calls : Cardinality(Holders(c)) <= MAX_CONCURRENCY)
  /\ \A c \in Calls, d \in Dev :
       (pc[c][d] = "waiting") ~> (pc[c][d] = "woken")

\* C8's case: every slot is taken, one of them by a device that had to wait.
C8_Witness ==
  \E c \in Calls :
    /\ Cardinality(Holders(c)) = MAX_CONCURRENCY
    /\ \E d \in Dev : pc[c][d] = "woken"
    /\ waiters[c] = <<>>

\* C9: a device has at most one probe in flight; sample k+1 is submitted
\* after sample k has returned and been taken and, with a delay configured,
\* after the k-th sleep has ended; a scanned device is probed exactly
\* PROBE_ATTEMPTS times, with a sleep between consecutive samples only.
C9_SequentialSamples ==
  \A c \in Calls, d \in Dev :
    /\ inflight[c][d] <= 1
    /\ inflight[c][d] = 1 <=> (pc[c][d] = "probing" /\ pending[c][d] = "none")
    /\ pending[c][d] # "none" => pc[c][d] = "probing"
    /\ pc[c][d] = "ready" =>
         /\ calls[c][d] = idx[c][d]
         /\ sleeps[c][d] = IF interval_ms > 0 THEN idx[c][d] ELSE 0
    /\ pc[c][d] = "probing" =>
         /\ calls[c][d] = idx[c][d] + 1
         /\ sleeps[c][d] = IF interval_ms > 0 THEN idx[c][d] ELSE 0
    /\ pc[c][d] = "sleeping" =>
         /\ calls[c][d] < PROBE_ATTEMPTS
         /\ calls[c][d] = idx[c][d] + 1
         /\ sleeps[c][d] = calls[c][d]
    /\ (pc[c][d] = "done" /\ results[c][d].kind = "scanned_hdds") =>
         /\ calls[c][d] = PROBE_ATTEMPTS
         /\ sleeps[c][d] = IF interval_ms > 0 THEN PROBE_ATTEMPTS - 1 ELSE 0

\* C9's case: a device was probed to the end with a delay between samples.
C9_Witness ==
  \E c \in Calls, d \in Dev :
    /\ pc[c][d] = "done" /\ results[c][d].kind = "scanned_hdds"
    /\ interval_ms > 0
    /\ calls[c][d] = PROBE_ATTEMPTS /\ sleeps[c][d] = PROBE_ATTEMPTS - 1

\* The devices of the running scan of call c that are rotational and not
\* virtual.
Eligible(c) ==
  {d \in Dev : Listed(c, d) /\ rtype[c][d] = "hdd" /\ virt[c][d] = "no"}

\* A step of the running scan of call c.
ScanStep(c) ==
  \/ \E d \in Dev : TaskStart(c, d)
  \/ \E d \in Dev : TaskResume(c, d)
  \/ \E d \in Dev : ProbeStart(c, d, FALSE)
  \/ \E d \in Dev : ProbeReturn(c, d, FALSE)
  \/ \E d \in Dev : SampleTaken(c, d)
  \/ \E d \in Dev : SleepEnd(c, d)
  \/ Collect(c)

\* C10: whatever the probes' outcomes, a scan is never stopped short of its
\* end, and it renders exactly one record for every rotational non-virtual
\* device, with the state folded from that device's samples; a probe's
\* return and the taking of its sample change no other device's aggregate
\* or result, in the same scan or in another.
C10_FailuresStayLocal ==
  /\ [](\A c \in Calls : phase[c] = "scanning" => ENABLED ScanStep(c))
  /\ [][\A c \in Calls :
          (phase[c] = "scanning" /\ phase'[c] = "done") =>
            /\ Len(lines'[c]) = Cardinality(Eligible(c))
            /\ \A d \in Eligible(c) :
                 \E k \in 1..Len(lines'[c]) :
                   /\ lines'[c][k].device = d
                   /\ lines'[c][k].state = highest[c][d]
       ]_vars
  /\ [][\A c \in Calls, d \in Dev :
          (/\ pc[c][d] = "probing"
           /\ inflight'[c][d] # inflight[c][d] \/ pc'[c][d] # "probing") =>
            /\ \A e \in Dev \ {d} :
                 /\ highest'[c][e] = highest[c][e]
                 /\ results'[c][e] = results[c][e]
                 /\ idx'[c][e] = idx[c][e]
                 /\ \/ pc'[c][e] = pc[c][e]
                    \/ pc[c][e] = "waiting" /\ pc'[c][e] = "woken"
            /\ \A o \in Calls \ {c} :
                 /\ highest'[o] = highest[o]
                 /\ results'[o] = results[o]
                 /\ pc'[o] = pc[o]
                 /\ sem'[o] = sem[o]
       ]_vars

\* C10's case: a scan rendered two devices, one whose probes all failed or
\* timed out and one that was seen active, while another call of metrics()
\* has every slot of its own semaphore taken by a device with a probe in
\* flight.
C10_Witness ==
  \E c \in Calls :
    /\ phase[c] = "done"
    /\ Len(lines[c]) = 2
    /\ lines[c][1].state = "unknown"
    /\ lines[c][2].state = "active"
    /\ \E o \in Calls \ {c} :
         /\ phase[o] = "scanning"
         /\ Cardinality({d \in Dev : inflight[o][d] = 1}) = MAX_CONCURRENCY

\* C11: under fair scheduling, with every smartctl run returning or timing
\* out, every enumerated device gets a slot and finishes, a scanned device
\* after PROBE_ATTEMPTS samples; the scan reaches its completed state, and
\* there every slot is back in the semaphore and no task waits.
C11_ScanTerminates ==
  /\ \A c \in Calls : (phase[c] = "scanning") ~> (phase[c] = "done")
  /\ \A c \in Calls, d \in Dev :
       (pc[c][d] \in {"created", "waiting"}) ~> (pc[c][d] = "done")
  /\ [](\A c \in Calls, d \in Dev :
         (pc[c][d] = "done" /\ results[c][d].kind = "scanned_hdds") =>
           calls[c][d] = PROBE_ATTEMPTS /\ inflight[c][d] = 0)
  /\ [](\A c \in Calls :
         phase[c] = "done" => sem[c] = SemaphoreValue /\ waiters[c] = <<>>)

\* C11's case: a scan of more rotational devices than there are slots came
\* to its end with every slot released.
C11_Witness ==
  \E c \in Calls :
    /\ phase[c] = "done"
    /\ counters[c].scanned_hdds > MAX_CONCURRENCY
    /\ sem[c] = SemaphoreValue /\ waiters[c] = <<>>

\* The rotational non-virtual devices of the running scan, in device order.
EligibleSorted(c) == Sorted(Eligible(c))

\* C12: whatever the order in which the tasks finish, the records a scan
\* renders are in ascending device order: they are the scan's rotational
\* non-virtual devices, sorted, each with its folded state, so the output is
\* a function of the devices and the states observed.
C12_OutputInDeviceOrder ==
  /\ [](\A c \in Calls :
         \A j, k \in 1..Len(lines[c]) :
           j < k => lines[c][j].device < lines[c][k].device)
  /\ [][\A c \in Calls :
          (phase[c] = "scanning" /\ phase'[c] = "done") =>
            /\ Len(lines'[c]) = Len(EligibleSorted(c))
            /\ \A k \in 1..Len(lines'[c]) :
                 lines'[c][k] =
                   [device |-> EligibleSorted(c)[k],
                    state |-> highest[c][EligibleSorted(c)[k]],
                    value |-> STATE_MAP(highest[c][EligibleSorted(c)[k]])]
       ]_vars

\* C12's case: a device's record was returned before that of a device
\* listed ahead of it, and the scan rendered both.
C12_Witness ==
  \E c \in Calls :
    /\ phase[c] = "done"
    /\ overtaken[c]
    /\ Len(lines[c]) >= 2

\* The step just taken wrote the cooldown entry of d: set_device_cooldown(d),
\* or a probe of d that timed out.
WroteEntry(d) ==
  /\ ev.dev = d
  /\ ev.op = "set" \/ (ev.op = "return" /\ ev.kind = "timeout")

\* C13: with probes running side by side, the cooldown table loses no
\* update: a step that writes d's entry (set_device_cooldown(d), or a probe
\* of d that times out) leaves the entry at the time of writing plus the
\* cooldown; a read of d past the expiry removes the entry; every other
\* step, for d or for another device, leaves d's entry as it was.
C13_NoLostUpdate ==
  [][\A d \in ProbeDev :
       LET wrote == WroteEntry(d)'
           evicts == /\ ev'.op = "check" /\ ev'.dev = d
                     /\ d \in DOMAIN cooldowns /\ now >= cooldowns[d]
       IN /\ wrote =>
               /\ d \in DOMAIN cooldowns'
               /\ cooldowns'[d] = now' + COOLDOWN_SECONDS
          /\ evicts => d \notin DOMAIN cooldowns'
          /\ (~wrote /\ ~evicts) =>
               /\ d \in DOMAIN cooldowns' <=> d \in DOMAIN cooldowns
               /\ d \in DOMAIN cooldowns => cooldowns'[d] = cooldowns[d]
    ]_vars

\* The entries of the table other than d's are the same in both tables.
SameButFor(d, table1, table2) ==
  /\ DOMAIN table1 \ {d} = DOMAIN table2 \ {d}
  /\ \A e \in DOMAIN table1 \ {d} : table1[e] = table2[e]

\* C14: is_device_in_cooldown(d) answers false for a device with no entry;
\* it answers true and leaves the table alone while now < expiry; past the
\* expiry it answers false and removes d's entry, and no other;
\* set_device_cooldown(d) leaves d's expiry at now + COOLDOWN_SECONDS, with
\* or without an entry before, and no other entry changed.  No entry exists
\* before a write makes it.
C14_CooldownOperations ==
  /\ [][ev'.op = "check" =>
          LET d == ev'.dev IN
          /\ d \notin DOMAIN cooldowns =>
               ~ev'.live /\ cooldowns' = cooldowns
          /\ (d \in DOMAIN cooldowns /\ now < cooldowns[d]) =>
               ev'.live /\ cooldowns' = cooldowns
          /\ (d \in DOMAIN cooldowns /\ now >= cooldowns[d]) =>
               /\ ~ev'.live
               /\ d \notin DOMAIN cooldowns'
               /\ SameButFor(d, cooldowns, cooldowns')
       ]_vars
  /\ [][ev'.op = "set" =>
          LET d == ev'.dev IN
          /\ d \in DOMAIN cooldowns'
          /\ cooldowns'[d] = now + COOLDOWN_SECONDS
          /\ SameButFor(d, cooldowns, cooldowns')
       ]_vars
  /\ [][\A d \in Dev :
          (d \notin DOMAIN cooldowns /\ d \in DOMAIN cooldowns') =>
            WroteEntry(d)'
       ]_vars

\* C14's case: a read past the expiry answered false and removed the entry,
\* and the other device's entry, refreshed since, is in the table.
C14_Witness ==
  /\ ev.op = "check" /\ ev.kind = "entry" /\ ~ev.live
  /\ ev.dev \notin DOMAIN cooldowns
  /\ \E e \in DOMAIN cooldowns : cooldowns[e] > now

\* The markers in the precedence order the specification gives, and the
\* state each stands for.
MarkerPrecedence ==
  <<"STANDBY", "SLEEP", "IDLE_A", "IDLE_B", "IDLE_C", "ACTIVE OR IDLE",
    "ACTIVE", "IDLE">>

MarkerState(marker) ==
  CASE marker = "STANDBY" -> "standby"
    [] marker = "SLEEP" -> "sleep"
    [] marker = "IDLE_A" -> "idle_a"
    [] marker = "IDLE_B" -> "idle_b"
    [] marker = "IDLE_C" -> "idle_c"
    [] marker = "ACTIVE OR IDLE" -> "active_or_idle"
    [] marker = "ACTIVE" -> "active"
    [] marker = "IDLE" -> "idle"

\* The markers present in the output, whatever the case of the letters.
MarkersPresent(stdout) ==
  {MarkerPrecedence[k] : k \in {j \in 1..Len(MarkerPrecedence) :
                                  InOutput(MarkerPrecedence[j], stdout)}}

FirstMarker(stdout) ==
  MarkerPrecedence[CHOOSE k \in 1..Len(MarkerPrecedence) :
                     /\ MarkerPrecedence[k] \in MarkersPresent(stdout)
                     /\ \A j \in 1..(k - 1) :
                          MarkerPrecedence[j] \notin MarkersPresent(stdout)]

\* The output says that the device does not support SMART.
Unsupported(stdout) ==
  \E k \in 1..Len(stdout) :
    stdout[k] \in {"SMART support is: Unavailable",
                   "smart support is:   unavailable"}

\* A call whose invocation returned has been decoded.
Decoded == d_res # "none" /\ d_run.kind = "ok"

\* C15: when the invocation returns an output that is not the unsupported
\* text, the decoded state is that of the first marker, in the precedence
\* order, among the markers present in the output.
C15_FirstMarkerWins ==
  (Decoded /\ ~Unsupported(d_run.stdout)
     /\ MarkersPresent(d_run.stdout) # {}) =>
    d_res = MarkerState(FirstMarker(d_run.stdout))

\* C15's case: an output with two markers, the one of higher precedence on
\* the second line and in lower case.
C15_Witness ==
  /\ Decoded
  /\ d_run.stdout = <<"current mode: ACTIVE", "device is in standby mode">>
  /\ d_res = "standby"

\* C16: when the invocation returns and no marker matches the output, the
\* decoded state is "unknown" after a non-zero exit and "active_or_idle"
\* after exit code zero.
C16_UnmatchedDefault ==
  (Decoded /\ ~Unsupported(d_run.stdout)
     /\ MarkersPresent(d_run.stdout) = {}) =>
    d_res = IF d_run.returncode = 0 THEN "active_or_idle" ELSE "unknown"

\* C17: when the output says that SMART is unsupported, the decoded state is
\* "unknown" whatever the exit code and the markers in the output, and the
\* probe leaves no cooldown entry for the device.
C17_UnsupportedIsUnknown ==
  (Decoded /\ Unsupported(d_run.stdout)) =>
    /\ d_res = "unknown"
    /\ DecodeDev \notin DOMAIN cooldowns

\* C17's case: a non-zero exit with the unsupported text and a marker.
C17_Witness ==
  /\ Decoded
  /\ d_run.returncode # 0
  /\ d_run.stdout = <<"smart support is:   unavailable",
                      "current mode: ACTIVE">>
  /\ d_res = "unknown"

\* The output reports the state with the spelling ACTIVE/IDLE.
AlternateSpelling(stdout) ==
  \E k \in 1..Len(stdout) : stdout[k] = "state: ACTIVE/IDLE"

\* C18: an output that spells the state ACTIVE/IDLE, with no marker of
\* higher precedence than ACTIVE OR IDLE, decodes to "active_or_idle".
C18_AlternateSpelling ==
  (Decoded /\ ~Unsupported(d_run.stdout)
     /\ AlternateSpelling(d_run.stdout)
     /\ MarkersPresent(d_run.stdout)
          \cap {"STANDBY", "SLEEP", "IDLE_A", "IDLE_B", "IDLE_C"} = {}) =>
    d_res = "active_or_idle"

\* The devices of the running scan of call c that were classified and left
\* out.
SkippedNonRotational(c) ==
  {d \in Dev : Listed(c, d) /\ rtype[c][d] \in {"ssd", "unknown"}}
SkippedVirtual(c) ==
  {d \in Dev : Listed(c, d) /\ rtype[c][d] = "hdd" /\ virt[c][d] = "yes"}

\* C19: the prober is called for rotational non-virtual devices only; a
\* device that is non-rotational, of unknown type or virtual is never
\* probed, returns a skip counter and no record, and the scan's output has
\* records for the others only and counts each skipped device once.
C19_OnlyRotationalProbed ==
  /\ [](\A c \in Calls, d \in Dev :
         /\ (\/ calls[c][d] > 0
             \/ pc[c][d] \in {"ready", "probing", "sleeping"}) =>
              rtype[c][d] = "hdd" /\ virt[c][d] = "no"
         /\ d \in SkippedNonRotational(c) =>
              /\ calls[c][d] = 0 /\ pc[c][d] = "done"
              /\ results[c][d] =
                   [kind |-> "skipped_non_rotational", state |-> ""]
         /\ d \in SkippedVirtual(c) =>
              /\ calls[c][d] = 0 /\ pc[c][d] = "done"
              /\ results[c][d] = [kind |-> "skipped_virtual", state |-> ""])
  /\ [][\A c \in Calls :
          (phase[c] = "scanning" /\ phase'[c] = "done") =>
            /\ \A k \in 1..Len(lines'[c]) :
                 lines'[c][k].device \notin
                   SkippedNonRotational(c) \cup SkippedVirtual(c)
            /\ counters'[c].skipped_non_rotational =
                 Cardinality(SkippedNonRotational(c))
            /\ counters'[c].skipped_virtual = Cardinality(SkippedVirtual(c))
            /\ counters'[c].scanned_hdds = Len(lines'[c])
       ]_vars

\* C19's case: a scan's tasks are done, one device of unknown type and one
\* virtual device skipped without a probe, one device probed to the end.
C19_Witness ==
  \E c \in Calls :
    /\ phase[c] = "scanning"
    /\ \E d1, d2, d3 \in Dev :
         /\ pc[c][d1] = "done" /\ rtype[c][d1] = "unknown"
         /\ calls[c][d1] = 0
         /\ pc[c][d2] = "done" /\ virt[c][d2] = "yes" /\ calls[c][d2] = 0
         /\ pc[c][d3] = "done" /\ results[c][d3].kind = "scanned_hdds"
         /\ calls[c][d3] = PROBE_ATTEMPTS

\* The report's lines as the specification reads them: pool-marker lines
\* and the pool each names, the config marker, and the device lines with
\* the base device each stands for.
PoolNamedBy(line) ==
  CASE line = "  pool: tank" -> "tank"
    [] line = "  pool: backup" -> "backup"
    [] line = "  pool:" -> ""

IsPoolMarker(line) == line \in {"  pool: tank", "  pool: backup", "  pool:"}

IsConfigMarker(line) == line = "config:"

BaseDeviceOf(line) ==
  CASE line = "  /dev/disk/by-id/ata-DISK123-part1  ONLINE" -> "/dev/sdc"
    [] line = "  /dev/sdd1  ONLINE" -> "/dev/sdd"

IsDeviceLine(line) ==
  line \in {"  /dev/disk/by-id/ata-DISK123-part1  ONLINE",
            "  /dev/sdd1  ONLINE"}

\* The pool named by the most recent pool-marker line among the first k
\* lines, "" when there is none.
RECURSIVE PoolAt(_, _)
PoolAt(report, k) ==
  IF k = 0 THEN ""
  ELSE IF IsPoolMarker(report[k]) THEN PoolNamedBy(report[k])
  ELSE PoolAt(report, k - 1)

\* After the first k lines the scanner is inside a config section: a config
\* marker was seen and no pool-marker line since.
RECURSIVE InConfigAt(_, _)
InConfigAt(report, k) ==
  IF k = 0 THEN FALSE
  ELSE IF IsPoolMarker(report[k]) THEN FALSE
  ELSE IF IsConfigMarker(report[k]) THEN TRUE
  ELSE InConfigAt(report, k - 1)

\* The device lines among the first n that are to be recorded.
RecordedLines(report, n) ==
  {k \in 1..n : /\ IsDeviceLine(report[k])
                /\ InConfigAt(report, k - 1)
                /\ PoolAt(report, k - 1) # ""}

\* C20: after any number of lines of any report, the map holds exactly the
\* base devices of the device lines seen inside a config section with a
\* pool name set, each with the pool named by the most recent pool-marker
\* line before its last such line; every line of the report is read, and
\* the map returned is the map after the last line.
C20_TopologyScanner ==
  /\ z_pc = "parsing" \/ (z_pc = "returned" /\ z_run.kind = "ok") =>
       LET report == z_run.stdout
           R == RecordedLines(report, z_i)
       IN /\ DOMAIN pool_map = {BaseDeviceOf(report[k]) : k \in R}
          /\ \A k \in R :
               (\A j \in R :
                  BaseDeviceOf(report[j]) = BaseDeviceOf(report[k]) => j <= k)
               => pool_map[BaseDeviceOf(report[k])] = PoolAt(report, k - 1)
  /\ (z_pc = "returned" /\ z_run.kind = "ok") =>
       /\ z_i = Len(z_run.stdout)
       /\ DOMAIN z_result = DOMAIN pool_map
       /\ \A b \in DOMAIN pool_map : z_result[b] = pool_map[b]

\* C20's case: inside a pool's config section a heading line was skipped
\* and the device line after it was recorded under its base device.
C20_Witness ==
  /\ z_pc = "returned"
  /\ z_run.stdout = <<"  pool: tank", "config:", "  NAME  STATE",
                      "  /dev/sdd1  ONLINE">>
  /\ DOMAIN z_result = {"/dev/sdd"}
  /\ z_result["/dev/sdd"] = "tank"

\* The call of get_zpool_device_map is over.
ZpoolDone == z_pc \in {"returned", "excepted"}

\* The devices a scan may ask the pool of.
PoolClients == {"/dev/sdc", "/dev/sdd", "/dev/sde"}

\* The mapping returned is empty and every device's pool reads "none".
EmptyMapping ==
  /\ DOMAIN z_result = {}
  /\ \A dev \in PoolClients : PoolOf(z_result, dev) = "none"

\* C21 as stated: when the tool is absent, times out, exits abnormally or
\* raises while being parsed, the resolver returns an empty mapping and
\* every device's pool is "none".
C21_TopologyFailureEmpty ==
  (/\ ZpoolDone
   /\ \/ z_run.kind \in {"absent", "timeout", "failure"}
      \/ z_pc = "excepted"
      \/ z_run.returncode # 0) =>
    EmptyMapping

\* The names of a listing.
NamesOf(listing) == {listing[i] : i \in 1..Len(listing)}

\* The identity links of the listing that resolve to the device.
ResolvingNames ==
  {n \in NamesOf(p_listing) : LinkTarget(ByIdPath(n)) = LinkTarget(PidDev)}

\* a comes before b: a preferred prefix before none, then the shorter name,
\* then the order of strings.
ComesBefore(a, b) ==
  LET pa == StartsWithPreferred(a)
      pb == StartsWithPreferred(b)
  IN \/ pa /\ ~pb
     \/ pa = pb /\ NameLen(a) < NameLen(b)
     \/ pa = pb /\ NameLen(a) = NameLen(b) /\ StrOrder(a) < StrOrder(b)

MinimalName(S) == CHOOSE n \in S : \A m \in S \ {n} : ComesBefore(n, m)

\* C22: the resolver returns the by-id path of the candidate that is minimal
\* under (preferred prefix first, then shortest name, then order of strings)
\* among the links resolving to the device, and the device path itself when
\* there is none; every listing that yields the same names in another order
\* gives the same identifier.
C22_ResolverOrderIndependent ==
  p_res # "none" =>
    /\ p_res = IF ResolvingNames = {} THEN PidDev
               ELSE ByIdPath(MinimalName(ResolvingNames))
    /\ \A q \in Listings :
         NamesOf(q) = NamesOf(p_listing) =>
           get_persistent_id(PidDev, p_isdir, q) = p_res

\* Two preferred names of equal length are listed in descending order behind
\* an unprefixed one, a link to another device and an unreadable link; the
\* smaller preferred name is returned.
C22_Witness ==
  /\ p_isdir
  /\ p_listing = <<"md-x", "wwn-FAIR", "ata-LOOP", "ata-NICE">>
  /\ p_res = "/dev/disk/by-id/ata-NICE"

\* The devices of call c in their sample sequence: a sample submitted, in
\* the prober or returned, or in the delay behind it.
Sampling(c) == {d \in Dev : pc[c][d] \in {"ready", "probing", "sleeping"}}

\* C23: a device takes a slot before its first sample, keeps it across all
\* its samples and delays, and gives it back once, when it finishes, whatever
\* the probes returned: every slot of a scan is either free or held by one
\* device, the free slots number between 0 and MAX_CONCURRENCY, and all are
\* free when the scan has ended.
C23_SlotHeldForSequence ==
  /\ [](\A c \in Calls :
         phase[c] # "idle" =>
           /\ sem[c] \in 0..MAX_CONCURRENCY
           /\ sem[c] + Cardinality(Holders(c)) = MAX_CONCURRENCY
           /\ \A d \in Dev :
                /\ pc[c][d] \in {"created", "waiting", "woken"} =>
                     calls[c][d] = 0
                /\ (calls[c][d] > 0 /\ pc[c][d] # "done") => d \in Sampling(c)
           /\ phase[c] = "done" =>
                sem[c] = MAX_CONCURRENCY /\ Holders(c) = {})
  /\ [][\A c \in Calls, d \in Dev :
          /\ (/\ d \in Sampling(c)
              /\ pc'[c][d] # "done"
              /\ phase'[c] = "scanning") => d \in Sampling(c)'
          /\ (/\ d \in Holders(c)
              /\ d \notin Holders(c)'
              /\ phase'[c] = "scanning") =>
               /\ pc'[c][d] = "done"
               /\ results'[c][d].kind = "scanned_hdds" =>
                    calls[c][d] = PROBE_ATTEMPTS /\ inflight'[c][d] = 0
               /\ sem'[c] + Cardinality(Holders(c)')
                    = sem[c] + Cardinality(Holders(c))
          /\ (pc[c][d] = "done" /\ phase'[c] = phase[c]) => pc'[c][d] = "done"
     ]_vars

\* C23's case: every slot of a scan is taken, one by a device in the delay
\* between two samples, the other by a device in a later sample whose
\* earlier samples failed, and a third device waits.
C23_Witness ==
  \E c \in Calls :
    /\ phase[c] = "scanning"
    /\ sem[c] = 0
    /\ Len(waiters[c]) = 1
    /\ \E d, e \in Dev :
         /\ d # e
         /\ pc[c][d] = "sleeping" /\ calls[c][d] = 1
         /\ pc[c][e] = "probing" /\ calls[c][e] > 1
         /\ highest[c][e] = "unknown"

\* C24: the running aggregate of a device's samples starts at "unknown" and
\* never goes down in the activity order from one sample to the next; so the
\* aggregate is never below "unknown", and never "error", whatever the
\* samples are.
C24_AggregateNeverDecreases ==
  /\ [](f_i = 0 => f_highest = "unknown")
  /\ [](OrderIndex(f_highest) >= OrderIndex("unknown") /\ f_highest # "error")
  /\ [][f_i' = f_i + 1 =>
          /\ OrderIndex(f_highest') >= OrderIndex(f_highest)
          /\ OrderIndex(f_highest') >= OrderIndex(f_samples[f_i'])
          /\ f_highest' \in {f_highest, f_samples[f_i']}]_vars

\* C24's case: every sample of the sequence was "error" and the aggregate
\* is "unknown".
C24_Witness ==
  /\ f_i = Len(f_samples)
  /\ f_i > 1
  /\ \A k \in 1..Len(f_samples) : f_samples[k] = "error"
  /\ f_highest = "unknown"

\* The sequences that hold the samples of s in another order.
Reorderings(s) ==
  {[k \in 1..Len(s) |-> s[p[k]]] : p \in Permutations(1..Len(s))}

\* C25: folding the samples of a device in any other order gives the same
\* aggregated state.
C25_FoldOrderIndependent ==
  f_i = Len(f_samples) =>
    \A q \in Reorderings(f_samples) : FoldSamples("unknown", q) = f_highest

\* C25's case: three different samples, the highest of them first, folded.
C25_Witness ==
  /\ f_i = Len(f_samples)
  /\ f_samples = <<"active", "error", "standby">>
  /\ f_highest = "active"
====
